---- MODULE Spec2Model ----
(***************************************************************************)
(* The two workflow graphs of the assistant package:                       *)
(*   - the newsletter graph   (src/src/assistant/newsletter/graph.py)      *)
(*   - the deep-research graph (src/src/assistant/deep_research/graph.py)  *)
(* A run is one invocation of a compiled graph on a caller-supplied state. *)
(* Every node is one action; the collaborators (text generator, search     *)
(* provider) are inputs of the action, drawn from small sets of outcomes.  *)
(* Python strings built with f-strings are sequences of tokens, None is    *)
(* the marker None, a dict is a function over its keys.                    *)
(***************************************************************************)
EXTENDS Integers, Sequences, FiniteSets, TLC

\* ------------------------------------------------------------------ bounds
\* longest caller-supplied category list
MaxLen == 3
\* largest max_iterations a research caller asks for
MaxIter == 2
\* node invocations of a research run that are explored
MaxSteps == 11

\* ----------------------------------------------------------------- helpers
None == "<None>"

\* Python truthiness of an Optional[str]
Falsy(x) == x = None \/ x = ""

Range(s) == {s[i] : i \in 1..Len(s)}

\* list.index(x): position of the first occurrence, 0 when it raises ValueError
index(s, x) ==
    IF x \in Range(s) THEN CHOOSE i \in 1..Len(s) : s[i] = x /\ \A j \in 1..(i - 1) : s[j] # x
    ELSE 0

\* d[k] = v on a dict
DictSet(d, k, v) == [x \in (DOMAIN d) \cup {k} |-> IF x = k THEN v ELSE d[x]]

EmptyDict == [x \in {} |-> <<>>]

\* ------------------------------------------------------ newsletter: inputs
DefaultCategories ==
    <<"Big Tech & Startups", "Science & Futuristic Technology",
      "Programming, Design & Data Science">>

\* datetime.now().strftime("%Y-%m-%d")
Today == "today"

NamePool == <<"A", "B", "C", "D", "E">>

\* category lists up to renaming of the categories: list i names its
\* categories in order of first appearance, repeated names included
Shapes(n) ==
    {f \in [1..n -> 1..n] :
        \A i \in 1..n : \A v \in 1..(f[i] - 1) : \E j \in 1..(i - 1) : f[j] = v}

CategoryLists ==
    UNION {{[i \in 1..n |-> NamePool[f[i]]] : f \in Shapes(n)} : n \in 0..MaxLen}

\* a category name that is in no list
Stranger == "X"

\* what the text generator's call can do for a node that expects a JSON
\* object with one key
\*   raise    the call itself fails
\*   nonjson  the content is no JSON                 (json.JSONDecodeError)
\*   nondict  the content is JSON, not an object     (TypeError on x[key])
\*   nokey    a JSON object without the key          (KeyError)
\*   ok       a JSON object with the key, value val
LlmKinds == {"raise", "nonjson", "nondict", "nokey", "ok"}

Llm(kind, val) == [kind |-> kind, val |-> val]

QueryValues == {<<"q1">>, <<>>}

QueryResponses ==
    {Llm(k, <<>>) : k \in LlmKinds \ {"ok"}} \cup {Llm("ok", q) : q \in QueryValues}

\* articles a summarizer response lists; "bad" is an entry without a title
Articles == {"a1", "a2"}
BadArticle == "bad"

SummaryValues == {<<>>, <<"a2", "a1">>, <<BadArticle>>}

SummaryResponses ==
    {Llm(k, <<>>) : k \in LlmKinds \ {"ok"}} \cup {Llm("ok", v) : v \in SummaryValues}

\* what the search tool's call can do
\*   raise   the call fails
\*   nourl   a dict whose "results" holds an entry without "url"
\*   ok      a dict whose "results" are the entries with these urls
Search(kind, urls) == [kind |-> kind, urls |-> urls]

\* the search providers a graph can be configured with
Providers == {"duckduckgo", "tavily", "perplexity"}

\* the entries a provider's API hands back: "u1" has a url (by which it is
\* named), a title and a content, "t1" is an entry for the same url without a
\* title, "nu" has no url
NoTitle == {"t1"}
NoUrl == {"nu"}

\* [r["url"] for r in results]
Urls(results) == [i \in 1..Len(results) |-> IF results[i] \in NoTitle THEN "u1" ELSE results[i]]

UrlLists == {<<>>, <<"u1">>}

\* what the provider's API does: the request fails, or it answers with entries
Raw(kind, entries) == [kind |-> kind, entries |-> entries]

RawResponses ==
    {Raw("raise", <<>>)} \cup {Raw("ok", e) : e \in UrlLists \cup {<<"t1">>, <<"nu">>}}

\* incomplete entries are skipped, any exception gives {"results": []}
duckduckgo_search(raw) ==
    IF raw.kind = "raise" THEN Search("ok", <<>>)
    ELSE Search("ok", SelectSeq(raw.entries, LAMBDA e : e \notin NoTitle \cup NoUrl))

\* the client's answer is handed on as it is
tavily_search(raw) ==
    IF raw.kind = "raise" THEN Search("raise", <<>>)
    ELSE IF \E e \in Range(raw.entries) : e \in NoUrl THEN Search("nourl", <<>>)
    ELSE Search("ok", raw.entries)

\* one result per citation, each given a title; citations[0] of an empty list
\* raises IndexError
perplexity_search(raw) ==
    IF raw.kind = "raise" \/ raw.entries = <<>> THEN Search("raise", <<>>)
    ELSE Search("ok", raw.entries)

\* a citation is a url
Citations == {Raw("raise", <<>>)} \cup {Raw("ok", e) : e \in UrlLists}

\* get_search_tool(search_tool_name): what a call of the tool can return
SearchOutcomes(search_tool_name) ==
    CASE search_tool_name = "tavily" -> {tavily_search(raw) : raw \in RawResponses}
      [] search_tool_name = "perplexity" -> {perplexity_search(raw) : raw \in Citations}
      [] OTHER -> {duckduckgo_search(raw) : raw \in RawResponses}

\* ------------------------------------------------------- newsletter: state
VARIABLES
    n_pc,       \* the node the newsletter run is about to invoke
    n_tool,     \* config["search_tool"] of the newsletter graph
    nstate,     \* the NewsletterState that flows through the graph
    n_input,    \* the state the caller supplied
    n_calls,    \* collaborator calls made so far: <<operation, category, phase>>
    n_catchup,  \* what the catch-up pass met: one record per category it processed,
                \* with the outcome kinds of its calls and the urls its search returned
    n_cycles,   \* completed generate_query..update_category cycles
    n_exit,     \* keys of category_summaries when the per-category loop was left
    n_last,     \* outcome kinds of the collaborator calls of the last node
    n_result,   \* who started the run, and what NewsletterRunner.run returned
    n_returned  \* the urls of the results the searches have returned, in call order

nvars ==
    <<n_pc, n_tool, nstate, n_input, n_calls, n_catchup, n_cycles, n_exit, n_last, n_result,
      n_returned>>

NoLast == [llm |-> "-", search |-> "-"]

\* f"{category} latest news {date}"
FallbackQuery(category, date) == <<category, " latest news ", date>>

\* ----------------------------------------------------- newsletter: nodes
Node(ok, st) == [ok |-> ok, st |-> st]

\* the node with defaults that overwrite what the caller supplied
nl_initialize_state_defaults(state, search_tool_name) ==
    [state EXCEPT !.date = Today, !.categories = DefaultCategories,
                  !.current_category = DefaultCategories[1],
                  !.category_summaries = EmptyDict,
                  !.newsletter_summary = <<>>,
                  !.sources_gathered = <<>>,
                  !.search_query = <<>>,
                  !.web_research_results = <<>>,
                  !.search_tool_name = search_tool_name]

nl_initialize_state(state, search_tool_name) ==
    LET date == IF Falsy(state.date) THEN Today ELSE state.date
        categories == IF state.categories = <<>> THEN DefaultCategories ELSE state.categories
        current == IF Falsy(state.current_category) THEN categories[1]
                   ELSE state.current_category
    IN  [state EXCEPT !.date = date, !.categories = categories,
                      !.current_category = current,
                      !.category_summaries = EmptyDict,
                      !.newsletter_summary = <<>>,
                      !.sources_gathered = <<>>,
                      !.search_query = <<>>,
                      !.web_research_results = <<>>,
                      !.search_tool_name = search_tool_name]

nl_generate_search_query(state, response) ==
    IF response.kind = "ok"
    THEN [state EXCEPT !.search_query = response.val]
    ELSE [state EXCEPT !.search_query = FallbackQuery(state.current_category, state.date)]

\* the node with urls appended only when they are not yet in sources_gathered
search_news_dedup(state, result) ==
    IF result.kind = "ok"
    THEN [state EXCEPT !.web_research_results = result.urls,
                       !.sources_gathered =
                           @ \o SelectSeq(Urls(result.urls), LAMBDA u : u \notin Range(@))]
    ELSE [state EXCEPT !.web_research_results = <<>>]

search_news(state, result) ==
    IF result.kind = "ok"
    THEN [state EXCEPT !.web_research_results = result.urls,
                       !.sources_gathered = @ \o Urls(result.urls)]
    ELSE [state EXCEPT !.web_research_results = <<>>]

summarize_category(state, response) ==
    IF response.kind = "raise" THEN Node(FALSE, state)
    ELSE Node(TRUE,
              [state EXCEPT !.category_summaries =
                  DictSet(@, state.current_category,
                          IF response.kind = "ok" THEN response.val ELSE <<>>)])

\* the node without the reset of search_query for the new category
update_category_keepquery(state) ==
    LET current_index == index(state.categories, state.current_category)
    IN  IF current_index = 0 THEN state
        ELSE IF current_index + 1 <= Len(state.categories)
        THEN [state EXCEPT !.current_category = state.categories[current_index + 1],
                           !.web_research_results = <<>>]
        ELSE state

update_category(state) ==
    LET current_index == index(state.categories, state.current_category)
    IN  IF current_index = 0 THEN state
        ELSE IF current_index + 1 <= Len(state.categories)
        THEN [state EXCEPT !.current_category = state.categories[current_index + 1],
                           !.search_query = <<>>,
                           !.web_research_results = <<>>]
        ELSE state

Min(a, b) == IF a < b THEN a ELSE b

\* the predicate with a cap of one category instead of two
should_process_next_category_cap1(state) ==
    LET processed_categories ==
            Cardinality({i \in 1..Len(state.categories) :
                            state.categories[i] \in DOMAIN state.category_summaries})
        max_normal_processing == Min(Len(state.categories), 1)
        current_index == index(state.categories, state.current_category)
    IN  IF processed_categories >= max_normal_processing THEN FALSE
        ELSE IF current_index = 0 THEN FALSE
        ELSE current_index + 1 <= Len(state.categories)

\* the predicate without the cap: the loop goes on while there is a next entry
should_process_next_category_nocap(state) ==
    LET current_index == index(state.categories, state.current_category)
    IN  IF current_index = 0 THEN FALSE
        ELSE current_index + 1 <= Len(state.categories)

should_process_next_category(state) ==
    LET processed_categories ==
            Cardinality({i \in 1..Len(state.categories) :
                            state.categories[i] \in DOMAIN state.category_summaries})
        max_normal_processing == Min(Len(state.categories), 2)
        current_index == index(state.categories, state.current_category)
    IN  IF processed_categories >= max_normal_processing THEN FALSE
        ELSE IF current_index = 0 THEN FALSE
        ELSE current_index + 1 <= Len(state.categories)

\* the catch-up body with a failure handler that records nothing
catchup_one_norecord(state, category, out) ==
    LET s0 == [state EXCEPT !.current_category = category,
                            !.search_query = FallbackQuery(category, state.date)]
        failed(s) == [s EXCEPT !.web_research_results = <<>>]
    IN  IF out.search.kind # "ok" THEN failed(s0)
        ELSE LET s1 == [s0 EXCEPT !.web_research_results = out.search.urls,
                                  !.sources_gathered = @ \o Urls(out.search.urls)]
             IN  IF out.llm.kind = "raise" THEN failed(s1)
                 ELSE [s1 EXCEPT !.category_summaries =
                          DictSet(@, category,
                                  IF out.llm.kind = "ok" THEN out.llm.val ELSE <<>>)]

\* the head of the body with the search_query left as it was
catchup_begin_keepquery(state, category) == [state EXCEPT !.current_category = category]

\* the head of the for statement's body: the category is made current and its
\* query is set
catchup_begin(state, category) ==
    [state EXCEPT !.current_category = category,
                  !.search_query = FallbackQuery(category, state.date)]

\* one category of the catch-up loop (the body of the for statement)
\* out.search is the search call's outcome, out.llm the summarizer's
catchup_one(state, category, out) ==
    LET s0 == catchup_begin(state, category)
        failed(s) == [s EXCEPT !.web_research_results = <<>>,
                               !.category_summaries = DictSet(@, category, <<>>)]
    IN  IF out.search.kind # "ok" THEN failed(s0)
        ELSE LET s1 == [s0 EXCEPT !.web_research_results = out.search.urls,
                                  !.sources_gathered = @ \o Urls(out.search.urls)]
             IN  IF out.llm.kind = "raise" THEN failed(s1)
                 ELSE [s1 EXCEPT !.category_summaries =
                          DictSet(@, category,
                                  IF out.llm.kind = "ok" THEN out.llm.val ELSE <<>>)]

\* the collaborator calls catchup_one makes; the search call is logged with
\* the query it is invoked with, state.search_query
catchup_one_calls(state, category, out) ==
    <<<<"search", category, "catchup", catchup_begin(state, category).search_query>>>>
    \o (IF out.search.kind = "ok" THEN <<<<"summarize", category, "catchup">>>> ELSE <<>>)

\* the scan without its filter: every category counts as unprocessed
unprocessed_categories_all(state) == state.categories

unprocessed_categories(state) ==
    SelectSeq(state.categories, LAMBDA cat : cat \notin DOMAIN state.category_summaries)

\* the loop with a failure that ends the pass: the categories after it are
\* left alone
RECURSIVE catchup_loop_abort(_, _, _)
catchup_loop_abort(state, cats, outs) ==
    IF cats = <<>> THEN state
    ELSE IF Head(outs).search.kind # "ok" \/ Head(outs).llm.kind = "raise"
    THEN catchup_one(state, Head(cats), Head(outs))
    ELSE catchup_loop_abort(catchup_one(state, Head(cats), Head(outs)), Tail(cats), Tail(outs))

RECURSIVE catchup_loop(_, _, _)
catchup_loop(state, cats, outs) ==
    IF cats = <<>> THEN state
    ELSE catchup_loop(catchup_one(state, Head(cats), Head(outs)), Tail(cats), Tail(outs))

RECURSIVE catchup_calls(_, _, _)
catchup_calls(state, cats, outs) ==
    IF cats = <<>> THEN <<>>
    ELSE catchup_one_calls(state, Head(cats), Head(outs))
         \o catchup_calls(catchup_one(state, Head(cats), Head(outs)), Tail(cats), Tail(outs))

\* outs[i] is what the collaborators do for the i-th unprocessed category
process_remaining_categories(state, outs) ==
    catchup_loop(state, unprocessed_categories(state), outs)

process_remaining_calls(state, outs) ==
    catchup_calls(state, unprocessed_categories(state), outs)

Emoji(category) ==
    CASE category = "Big Tech & Startups" -> "phone"
      [] category = "Science & Futuristic Technology" -> "rocket"
      [] category = "Programming, Design & Data Science" -> "laptop"
      [] OTHER -> ""

RECURSIVE FlatMap(_, _)
FlatMap(F(_), s) == IF s = <<>> THEN <<>> ELSE F(Head(s)) \o FlatMap(F, Tail(s))

\* the three lines the newsletter holds for one article
ArticleLines(article) ==
    <<<<article, "title">>, <<article, "summary">>, <<"Read more: ", article, "url">>>>

Reverse(s) == [i \in 1..Len(s) |-> s[Len(s) + 1 - i]]

\* the text with the articles of each section in reverse
Render_reversed(date, categories, summaries) ==
    LET Section(category) ==
            <<<<Emoji(category), category>>>>
            \o FlatMap(ArticleLines, Reverse(summaries[category]))
    IN  <<<<"Builder's News ", date>>>> \o FlatMap(Section, categories)

\* the text of the newsletter, a sequence of lines
Render(date, categories, summaries) ==
    LET Section(category) ==
            <<<<Emoji(category), category>>>> \o FlatMap(ArticleLines, summaries[category])
    IN  <<<<"Builder's News ", date>>>> \o FlatMap(Section, categories)

generate_newsletter(state) ==
    LET filled == [c \in (DOMAIN state.category_summaries) \cup Range(state.categories) |->
                      IF c \in DOMAIN state.category_summaries
                      THEN state.category_summaries[c] ELSE <<>>]
        s0 == [state EXCEPT !.category_summaries = filled]
        keyerror == \E c \in Range(state.categories) : BadArticle \in Range(filled[c])
    IN  IF keyerror THEN Node(FALSE, s0)
        ELSE Node(TRUE, [s0 EXCEPT !.newsletter_summary =
                            Render(state.date, state.categories, filled)])

end_workflow(state) == state

\* ---------------------------------------------------- newsletter: the run
\* what a caller hands to the graph: nothing but the categories, or a state
\* whose other fields are set as well
FreshInput(categories, current) ==
    [date |-> None, categories |-> categories, current_category |-> current,
     search_query |-> <<>>, web_research_results |-> <<>>,
     search_tool_name |-> "duckduckgo",
     category_summaries |-> EmptyDict, newsletter_summary |-> <<>>,
     sources_gathered |-> <<>>]

StaleInput(categories, current) ==
    [date |-> "d1", categories |-> categories, current_category |-> current,
     search_query |-> <<"old">>, web_research_results |-> <<"u0">>,
     search_tool_name |-> "duckduckgo",
     category_summaries |-> DictSet(EmptyDict, "A", <<"a1">>),
     newsletter_summary |-> <<<<"old">>>>,
     sources_gathered |-> <<"u0">>]

\* a fresh state with any current_category, or the stale state with none
NewsletterInputs ==
    {FreshInput(cats, cur) :
        <<cats, cur>> \in {<<c, x>> \in CategoryLists \X ({None, Stranger} \cup Range(NamePool)) :
                              x \in {None, Stranger} \cup Range(c)}}
    \cup {StaleInput(cats, None) : cats \in CategoryLists}

\* the outcomes the catch-up pass is run against, per category: the search
\* fails; the search returns and the summarizer's call fails, answers with text
\* that is no JSON, or answers with two articles
CatchupOutcomes(search_tool_name) ==
  LET all ==
    {[search |-> Search("raise", <<>>), llm |-> Llm("-", <<>>)],
     [search |-> Search("ok", <<"u1">>), llm |-> Llm("raise", <<>>)],
     [search |-> Search("ok", <<"u1">>), llm |-> Llm("nonjson", <<>>)],
     [search |-> Search("ok", <<"u1">>), llm |-> Llm("ok", <<"a2", "a1">>)]}
  IN  {o \in all : o.search \in SearchOutcomes(search_tool_name)}

\* the fields the NewsletterState dataclass declares
NewsletterStateFields ==
    {"date", "categories", "current_category", "search_query", "web_research_results",
     "search_tool_name", "category_summaries", "newsletter_summary", "sources_gathered"}

\* NewsletterState(**kwargs): a keyword that is no field raises TypeError
NewsletterState(kwargs) ==
    LET defaults == FreshInput(<<>>, None)
    IN  IF DOMAIN kwargs \subseteq NewsletterStateFields
        THEN Node(TRUE, [f \in NewsletterStateFields |->
                            IF f \in DOMAIN kwargs THEN kwargs[f] ELSE defaults[f]])
        ELSE Node(FALSE, defaults)

\* the keywords NewsletterRunner.run builds its input state from
RunnerKwargs(categories, date) ==
    LET cats == IF categories = <<>> THEN DefaultCategories ELSE categories
    IN  [date |-> IF Falsy(date) THEN Today ELSE date,
         categories |-> cats,
         category_summaries |-> EmptyDict,
         tldr_summary |-> <<>>,
         sources_gathered |-> <<>>,
         current_category |-> cats[1]]

\* the dict NewsletterRunner.run makes of the graph's result (a dict of the
\* state's fields): result.get("tldr_summary", "") and the two other keys
runner_result(result) ==
    [tldr_summary |-> IF "tldr_summary" \in DOMAIN result THEN result["tldr_summary"] ELSE <<>>,
     category_summaries |-> result.category_summaries,
     sources |-> result.sources_gathered]

NoResult == [tldr_summary |-> <<>>, category_summaries |-> EmptyDict, sources |-> <<>>]

\* the graph invoked by a caller of its own, on the state the caller supplies
ByGraph == [caller |-> "graph", returned |-> FALSE, value |-> NoResult]

\* NewsletterRunner.run(categories, date) called
ByRunner == [caller |-> "runner", returned |-> FALSE, value |-> NoResult]

RunnerDates == {None, "d1"}

\* the urls of the results a search call has returned: those of its entries
\* when the call returned a dict of entries that each have a url, none when it
\* raised or when the node's reading of the urls raises
ReturnedUrls(result) ==
    IF result.kind = "ok" THEN [i \in 1..Len(result.urls) |->
                                   IF result.urls[i] \in NoTitle THEN "u1" ELSE result.urls[i]]
    ELSE <<>>

NInit ==
    /\ n_pc = "initialize"
    /\ n_result = ByGraph
    /\ n_returned = <<>>
    /\ n_tool \in Providers
    /\ nstate \in NewsletterInputs
    /\ n_input = nstate
    /\ n_calls = <<>>
    /\ n_catchup = <<>>
    /\ n_cycles = 0
    /\ n_exit = {}
    /\ n_last = NoLast

\* NewsletterRunner.run is called with categories and date
NRunnerInit ==
    /\ n_pc = "run"
    /\ n_tool \in Providers
    /\ \E categories \in CategoryLists, date \in RunnerDates :
          nstate = [FreshInput(categories, None) EXCEPT !.date = date]
    /\ n_input = nstate
    /\ n_calls = <<>>
    /\ n_catchup = <<>>
    /\ n_cycles = 0
    /\ n_exit = {}
    /\ n_last = NoLast
    /\ n_result = ByRunner
    /\ n_returned = <<>>

\* run builds the input state and hands it to the graph
NRunnerRun ==
    /\ n_pc = "run"
    /\ LET r == NewsletterState(RunnerKwargs(nstate.categories, nstate.date))
       IN  IF r.ok THEN nstate' = r.st /\ n_pc' = "initialize"
           ELSE n_pc' = "RAISED" /\ UNCHANGED nstate
    /\ UNCHANGED <<n_tool, n_input, n_calls, n_catchup, n_cycles, n_exit, n_last, n_result, n_returned>>

NInitialize ==
    /\ n_pc = "initialize"
    /\ nstate' = nl_initialize_state(nstate, n_tool)
    /\ n_pc' = "generate_query"
    /\ n_last' = NoLast
    /\ UNCHANGED <<n_tool, n_input, n_calls, n_catchup, n_cycles, n_exit, n_result, n_returned>>

NGenerateQuery ==
    /\ n_pc = "generate_query"
    /\ \E response \in QueryResponses :
          /\ nstate' = nl_generate_search_query(nstate, response)
          /\ n_last' = [NoLast EXCEPT !.llm = response.kind]
    /\ n_calls' = Append(n_calls, <<"query", nstate.current_category, "loop">>)
    /\ n_pc' = "search"
    /\ UNCHANGED <<n_tool, n_input, n_catchup, n_cycles, n_exit, n_result, n_returned>>

NSearch ==
    /\ n_pc = "search"
    /\ \E result \in SearchOutcomes(n_tool) :
          /\ nstate' = search_news(nstate, result)
          /\ n_last' = [NoLast EXCEPT !.search = result.kind]
          /\ n_returned' = n_returned \o ReturnedUrls(result)
    /\ n_calls' = Append(n_calls, <<"search", nstate.current_category, "loop">>)
    /\ n_pc' = "summarize"
    /\ UNCHANGED <<n_tool, n_input, n_catchup, n_cycles, n_exit, n_result>>

NSummarize ==
    /\ n_pc = "summarize"
    /\ \E response \in SummaryResponses :
          LET r == summarize_category(nstate, response)
          IN  /\ nstate' = r.st
              /\ n_pc' = IF r.ok THEN "update_category" ELSE "RAISED"
              /\ n_last' = [NoLast EXCEPT !.llm = response.kind]
    /\ n_calls' = Append(n_calls, <<"summarize", nstate.current_category, "loop">>)
    /\ UNCHANGED <<n_tool, n_input, n_catchup, n_cycles, n_exit, n_result, n_returned>>

\* the node and the conditional edge that follows it
NUpdateCategory ==
    /\ n_pc = "update_category"
    /\ nstate' = update_category(nstate)
    /\ n_cycles' = n_cycles + 1
    /\ IF should_process_next_category(nstate')
       THEN n_pc' = "generate_query" /\ UNCHANGED n_exit
       ELSE /\ n_pc' = "process_remaining_categories"
            /\ n_exit' = DOMAIN nstate'.category_summaries
    /\ n_last' = NoLast
    /\ UNCHANGED <<n_tool, n_input, n_calls, n_catchup, n_result, n_returned>>

NProcessRemaining ==
    /\ n_pc = "process_remaining_categories"
    /\ \E outs \in [1..Len(unprocessed_categories(nstate)) -> CatchupOutcomes(n_tool)] :
          /\ nstate' = process_remaining_categories(nstate, outs)
          /\ n_calls' = n_calls \o process_remaining_calls(nstate, outs)
          /\ n_catchup' = [i \in 1..Len(outs) |->
                              [cat |-> unprocessed_categories(nstate)[i],
                               search |-> outs[i].search.kind,
                               llm |-> outs[i].llm.kind,
                               urls |-> ReturnedUrls(outs[i].search)]]
          /\ n_returned' = n_returned \o FlatMap(LAMBDA out : ReturnedUrls(out.search), outs)
    /\ n_pc' = "generate_newsletter"
    /\ n_last' = NoLast
    /\ UNCHANGED <<n_tool, n_input, n_cycles, n_exit, n_result>>

NGenerateNewsletter ==
    /\ n_pc = "generate_newsletter"
    /\ LET r == generate_newsletter(nstate)
       IN  /\ nstate' = r.st
           /\ n_pc' = IF r.ok THEN "end" ELSE "RAISED"
    /\ n_last' = NoLast
    /\ UNCHANGED <<n_tool, n_input, n_calls, n_catchup, n_cycles, n_exit, n_result, n_returned>>

NEnd ==
    /\ n_pc = "end"
    /\ nstate' = end_workflow(nstate)
    /\ n_pc' = "END"
    /\ n_result' = IF n_result.caller = "runner"
                   THEN [n_result EXCEPT !.returned = TRUE, !.value = runner_result(nstate')]
                   ELSE n_result
    /\ UNCHANGED <<n_tool, n_input, n_calls, n_catchup, n_cycles, n_exit, n_last, n_returned>>

\* --------------------------------------------------- deep research: state
VARIABLES
    r_pc,       \* the node the research run is about to invoke
    r_tool,     \* config["search_tool"] of the research graph
    rstate,     \* the values of the ResearchState channels
    r_alias,    \* whether a node is handed the channels' own lists or copies
    r_input,    \* the state the caller supplied
    r_steps,    \* node invocations so far
    r_searches, \* search_web invocations so far
    r_stopped,  \* should_continue_research has returned False
    r_after,    \* node invocations since it first returned False
    r_last      \* outcome kinds of the collaborator calls of the last node

rvars == <<r_pc, r_tool, rstate, r_alias, r_input, r_steps, r_searches, r_stopped, r_after, r_last>>


Topics == {<<"T">>, <<>>}

\* the fields declared Annotated[..., operator.add]
AddFields == {"web_research_results", "sources_gathered"}

\* what a node hands back: ok is FALSE when it raised, st is the state object
\* as the node left it, inplace the fields whose list it changed in place
RNode(ok, st, inplace) == [ok |-> ok, st |-> st, inplace |-> inplace]

\* the channels after a node's return value is written to them: a field with
\* a reducer becomes reducer(channel value, returned value), any other field
\* becomes the returned value
MergeState(channels, r, alias) ==
    LET before(f) == IF alias /\ f \in r.inplace THEN r.st[f] ELSE channels[f]
    IN  [f \in DOMAIN channels |->
            IF f \in AddFields THEN before(f) \o r.st[f] ELSE r.st[f]]

dr_initialize_state(state) ==
    RNode(TRUE,
          [state EXCEPT !.research_loop_count = 0,
                        !.web_research_results = <<>>,
                        !.sources_gathered = <<>>,
                        !.running_summary = <<>>],
          {})

dr_generate_search_query(state, response) ==
    IF response.kind \in {"raise", "nondict"} THEN RNode(FALSE, state, {})
    ELSE IF response.kind = "ok"
    THEN RNode(TRUE, [state EXCEPT !.search_query = response.val], {})
    ELSE RNode(TRUE, [state EXCEPT !.search_query = state.research_topic], {})

\* list.extend(dict) appends the dict's keys
ResultKeys == <<"results">>

search_web(state, result) ==
    IF result.kind = "raise" THEN RNode(FALSE, state, {})
    ELSE LET s1 == [state EXCEPT !.web_research_results = @ \o ResultKeys]
         IN  IF result.kind = "nourl" THEN RNode(FALSE, s1, {"web_research_results"})
             ELSE RNode(TRUE, [s1 EXCEPT !.sources_gathered = @ \o Urls(result.urls)], AddFields)

SummaryTexts == {<<"s1">>, <<>>}

TextResponses == {Llm("raise", <<>>)} \cup {Llm("ok", x) : x \in SummaryTexts}

update_summary(state, response) ==
    IF response.kind = "raise" THEN RNode(FALSE, state, {})
    ELSE RNode(TRUE,
               [state EXCEPT !.running_summary = response.val,
                             !.web_research_results = <<>>],
               {})

\* f"latest developments in {research_topic}"
FollowUpFallback(topic) == <<"latest developments in ">> \o topic

reflect_and_identify_gaps(state, response) ==
    IF response.kind \in {"raise", "nondict"} THEN RNode(FALSE, state, {})
    ELSE RNode(TRUE,
               [state EXCEPT !.search_query =
                                 IF response.kind = "ok" THEN response.val
                                 ELSE FollowUpFallback(state.research_topic),
                             !.research_loop_count = @ + 1],
               {})

\* the predicate with the bound included
should_continue_research_inclusive(state) ==
    state.research_loop_count <= state.max_iterations

should_continue_research(state) == state.research_loop_count < state.max_iterations

\* the successor the conditional edge after reflect maps each answer to
ReflectSuccessor(answer) == IF answer THEN "search_web" ELSE "update_summary"

\* ------------------------------------------------- deep research: the run
ResearchInputs ==
    {[research_topic |-> topic, max_iterations |-> n, research_loop_count |-> c,
      search_query |-> <<>>, web_research_results |-> w, sources_gathered |-> w,
      running_summary |-> <<>>] :
        topic \in Topics, n \in 1..MaxIter, <<c, w>> \in {<<0, <<>>>>, <<5, <<"u0">>>>}}

RInit ==
    /\ r_pc = "initialize"
    /\ r_tool \in Providers
    /\ rstate \in ResearchInputs
    /\ r_alias \in BOOLEAN
    /\ r_input = rstate
    /\ r_steps = 0
    /\ r_searches = 0
    /\ r_stopped = FALSE
    /\ r_after = 0
    /\ r_last = NoLast

\* one node invocation by the executor: the node runs on the channel values,
\* what it returns is merged into the channels, control moves to succ
RStep(r, succ) ==
    /\ r_steps < MaxSteps
    /\ r_steps' = r_steps + 1
    /\ r_after' = IF r_stopped THEN r_after + 1 ELSE r_after
    /\ IF r.ok
       THEN rstate' = MergeState(rstate, r, r_alias) /\ r_pc' = succ
       ELSE UNCHANGED rstate /\ r_pc' = "RAISED"
    /\ UNCHANGED <<r_tool, r_alias, r_input>>

RInitialize ==
    /\ r_pc = "initialize"
    /\ RStep(dr_initialize_state(rstate), "generate_query")
    /\ r_last' = NoLast
    /\ UNCHANGED <<r_searches, r_stopped>>

RGenerateQuery ==
    /\ r_pc = "generate_query"
    /\ \E response \in QueryResponses :
          /\ RStep(dr_generate_search_query(rstate, response), "search_web")
          /\ r_last' = [NoLast EXCEPT !.llm = response.kind]
    /\ UNCHANGED <<r_searches, r_stopped>>

RSearchWeb ==
    /\ r_pc = "search_web"
    /\ \E result \in SearchOutcomes(r_tool) :
          /\ RStep(search_web(rstate, result), "update_summary")
          /\ r_last' = [NoLast EXCEPT !.search = result.kind]
    /\ r_searches' = r_searches + 1
    /\ UNCHANGED r_stopped

RUpdateSummary ==
    /\ r_pc = "update_summary"
    /\ \E response \in TextResponses :
          /\ RStep(update_summary(rstate, response), "reflect")
          /\ r_last' = [NoLast EXCEPT !.llm = response.kind]
    /\ UNCHANGED <<r_searches, r_stopped>>

\* the node and the conditional edge that follows it
RReflect ==
    /\ r_pc = "reflect"
    /\ \E response \in QueryResponses :
          LET r == reflect_and_identify_gaps(rstate, response)
              merged == MergeState(rstate, r, r_alias)
          IN  /\ RStep(r, ReflectSuccessor(should_continue_research(merged)))
              /\ r_stopped' = (r_stopped \/ (r.ok /\ ~should_continue_research(merged)))
              /\ r_last' = [NoLast EXCEPT !.llm = response.kind]
    /\ UNCHANGED r_searches

\* ------------------------------------------- two runs of one compiled graph
\* Two invocations of the same newsletter graph, interleaved between nodes (a
\* node changes the state only after its await has returned). The executor
\* hands a node the objects its channels hold, so two runs given the same
\* input object hold the same list and dict objects until a node binds a field
\* to a new object; a change made in place to a shared object shows in both.
VARIABLES
    c_pc,       \* per run, the node the run is about to invoke
    c_tool,     \* config["search_tool"] of the graph both runs use
    c_state,    \* per run, the state that flows through the graph
    c_alone,    \* per run, the state the run has when nothing else runs
    c_obj,      \* per run and field, "caller" (the caller's object) or "own"
    c_shared    \* whether both runs were given the same input object

cvars == <<c_pc, c_tool, c_state, c_alone, c_obj, c_shared>>

Runs == {1, 2}

Other(i) == CHOOSE j \in Runs : j # i

\* the fields whose object the nodes change in place: sources_gathered.extend,
\* category_summaries[...] = ...
InPlaceFields == {"sources_gathered", "category_summaries"}

\* the nodes that never bind an in-place field to a new object
Rebound_none(node) == {}

\* the in-place fields a node binds to a new object
Rebound(node) ==
    IF node = "initialize" THEN {"sources_gathered", "category_summaries"} ELSE {}

\* run i and run j hold the same object in field f
Aliased(i, j, f) == c_shared /\ c_obj[i][f] = "caller" /\ c_obj[j][f] = "caller"

ConcInputs == {StaleInput(<<"A">>, None), FreshInput(<<"A", "B">>, None)}

CInit ==
    /\ c_pc = [i \in Runs |-> "initialize"]
    /\ c_tool \in Providers
    /\ c_shared \in BOOLEAN
    /\ c_state \in [Runs -> ConcInputs]
    /\ c_shared => c_state[1] = c_state[2]
    /\ c_alone = c_state
    /\ c_obj = [i \in Runs |-> [f \in InPlaceFields |-> "caller"]]

\* run i invokes node: st is the state the node leaves, alone the state it
\* leaves when the run is by itself, succ the node that follows
CStep(i, node, st, alone, succ) ==
    /\ c_pc[i] = node
    /\ c_pc' = [c_pc EXCEPT ![i] = succ]
    /\ c_state' =
          [j \in Runs |->
              IF j = i THEN st
              ELSE [f \in DOMAIN c_state[j] |->
                      IF f \in InPlaceFields /\ f \notin Rebound(node) /\ Aliased(i, j, f)
                      THEN st[f] ELSE c_state[j][f]]]
    /\ c_alone' = [c_alone EXCEPT ![i] = alone]
    /\ c_obj' = [c_obj EXCEPT ![i] =
                    [f \in InPlaceFields |-> IF f \in Rebound(node) THEN "own" ELSE @[f]]]
    /\ UNCHANGED <<c_tool, c_shared>>

CInitialize(i) ==
    CStep(i, "initialize", nl_initialize_state(c_state[i], c_tool),
          nl_initialize_state(c_alone[i], c_tool), "generate_query")

CGenerateQuery(i) ==
    \E response \in QueryResponses :
        CStep(i, "generate_query", nl_generate_search_query(c_state[i], response),
              nl_generate_search_query(c_alone[i], response), "search")

CSearch(i) ==
    \E result \in SearchOutcomes(c_tool) :
        CStep(i, "search", search_news(c_state[i], result),
              search_news(c_alone[i], result), "summarize")

CSummarize(i) ==
    \E response \in SummaryResponses :
        LET r == summarize_category(c_state[i], response)
        IN  CStep(i, "summarize", r.st, summarize_category(c_alone[i], response).st,
                  IF r.ok THEN "update_category" ELSE "RAISED")

CUpdateCategory(i) ==
    LET st == update_category(c_state[i])
    IN  CStep(i, "update_category", st, update_category(c_alone[i]),
              IF should_process_next_category(st) THEN "generate_query"
              ELSE "process_remaining_categories")

CProcessRemaining(i) ==
    \E outs \in [1..Len(unprocessed_categories(c_state[i])) -> CatchupOutcomes(c_tool)] :
        CStep(i, "process_remaining_categories",
              process_remaining_categories(c_state[i], outs),
              catchup_loop(c_alone[i], unprocessed_categories(c_state[i]), outs),
              "generate_newsletter")

CGenerateNewsletter(i) ==
    LET r == generate_newsletter(c_state[i])
    IN  CStep(i, "generate_newsletter", r.st, generate_newsletter(c_alone[i]).st,
              IF r.ok THEN "end" ELSE "RAISED")

CEnd(i) ==
    CStep(i, "end", end_workflow(c_state[i]), end_workflow(c_alone[i]), "END")

COff ==
    /\ c_pc = [i \in Runs |-> "off"]
    /\ c_tool = "duckduckgo"
    /\ c_shared = FALSE
    /\ c_state = [i \in Runs |-> FreshInput(<<>>, None)]
    /\ c_alone = c_state
    /\ c_obj = [i \in Runs |-> [f \in InPlaceFields |-> "caller"]]

\* --------------------------------------------------------------- the runs
NOff ==
    /\ n_pc = "off"
    /\ n_tool = "duckduckgo"
    /\ nstate = FreshInput(<<>>, None)
    /\ n_input = nstate
    /\ n_calls = <<>>
    /\ n_catchup = <<>>
    /\ n_cycles = 0
    /\ n_exit = {}
    /\ n_last = NoLast
    /\ n_result = ByGraph
    /\ n_returned = <<>>

ROff ==
    /\ r_pc = "off"
    /\ r_tool = "duckduckgo"
    /\ rstate = [research_topic |-> <<>>, max_iterations |-> 0, research_loop_count |-> 0,
                 search_query |-> <<>>, web_research_results |-> <<>>,
                 sources_gathered |-> <<>>, running_summary |-> <<>>]
    /\ r_alias = FALSE
    /\ r_input = rstate
    /\ r_steps = 0
    /\ r_searches = 0
    /\ r_stopped = FALSE
    /\ r_after = 0
    /\ r_last = NoLast

vars == <<nvars, rvars, cvars>>

\* a run of the newsletter graph or a run of the research graph
Init ==
    /\ (NInit /\ ROff) \/ (NRunnerInit /\ ROff) \/ (RInit /\ NOff)
    /\ COff

Next ==
    \/ NRunnerRun /\ UNCHANGED <<rvars, cvars>>
    \/ NInitialize /\ UNCHANGED <<rvars, cvars>>
    \/ NGenerateQuery /\ UNCHANGED <<rvars, cvars>>
    \/ NSearch /\ UNCHANGED <<rvars, cvars>>
    \/ NSummarize /\ UNCHANGED <<rvars, cvars>>
    \/ NUpdateCategory /\ UNCHANGED <<rvars, cvars>>
    \/ NProcessRemaining /\ UNCHANGED <<rvars, cvars>>
    \/ NGenerateNewsletter /\ UNCHANGED <<rvars, cvars>>
    \/ NEnd /\ UNCHANGED <<rvars, cvars>>
    \/ RInitialize /\ UNCHANGED <<nvars, cvars>>
    \/ RGenerateQuery /\ UNCHANGED <<nvars, cvars>>
    \/ RSearchWeb /\ UNCHANGED <<nvars, cvars>>
    \/ RUpdateSummary /\ UNCHANGED <<nvars, cvars>>
    \/ RReflect /\ UNCHANGED <<nvars, cvars>>

Spec == Init /\ [][Next]_vars

\* two interleaved runs of the newsletter graph
ConcInit == CInit /\ NOff /\ ROff

ConcNext ==
    \/ (\E i \in Runs : CInitialize(i)) /\ UNCHANGED <<nvars, rvars>>
    \/ (\E i \in Runs : CGenerateQuery(i)) /\ UNCHANGED <<nvars, rvars>>
    \/ (\E i \in Runs : CSearch(i)) /\ UNCHANGED <<nvars, rvars>>
    \/ (\E i \in Runs : CSummarize(i)) /\ UNCHANGED <<nvars, rvars>>
    \/ (\E i \in Runs : CUpdateCategory(i)) /\ UNCHANGED <<nvars, rvars>>
    \/ (\E i \in Runs : CProcessRemaining(i)) /\ UNCHANGED <<nvars, rvars>>
    \/ (\E i \in Runs : CGenerateNewsletter(i)) /\ UNCHANGED <<nvars, rvars>>
    \/ (\E i \in Runs : CEnd(i)) /\ UNCHANGED <<nvars, rvars>>

ConcSpec == ConcInit /\ [][ConcNext]_vars

\* ================================================================ claims
Distinct(s) == \A i, j \in 1..Len(s) : s[i] = s[j] => i = j

AllPresent(state) ==
    \A c \in Range(state.categories) : c \in DOMAIN state.category_summaries

\* the research run has been through initialize
RStarted == r_steps >= 1

\* C1: for max_iterations = N >= 1 the research loop runs the search ->
\* update_summary -> reflect cycle exactly N times: once the loop predicate has
\* answered False, research_loop_count is N and N searches were made
C1_ExactlyNCycles ==
    (RStarted /\ r_stopped) =>
        /\ rstate.research_loop_count = rstate.max_iterations
        /\ r_searches = rstate.max_iterations

\* C2: once should_continue_research has returned False the research run takes
\* one final step and then invokes no further node
C2_NoNodeAfterFinalStep == r_after <= 1

\* C3: in every state of a research run after initialize,
\* research_loop_count <= max_iterations
C3_LoopCountBounded ==
    RStarted => rstate.research_loop_count <= rstate.max_iterations

\* control of the newsletter run is past the catch-up pass
PastCatchup == n_pc \in {"generate_newsletter", "end", "END"}

C5_KeysAreTheCategories ==
    n_pc = "END" => DOMAIN nstate.category_summaries = Range(nstate.categories)

\* C6: every newsletter run goes on until it has passed the end node: it never
\* stops at another node
C6_RunReachesEnd == n_pc \in {"off", "END"} \/ ENABLED Next

\* the categories the catch-up pass has to process, given the keys present
\* when the per-category loop was left
Remaining == SelectSeq(nstate.categories, LAMBDA c : c \notin n_exit)

LoopLeft == n_pc \in {"process_remaining_categories", "generate_newsletter", "end", "END"}

\* n categories are present when the per-category loop is left, and the
\* catch-up pass processes the K - n others
CapAtExit(K, n) ==
    /\ LoopLeft => Cardinality(n_exit \cap Range(nstate.categories)) = n
    /\ PastCatchup => Len(n_catchup) = K - n

\* C7 as stated: for K >= 1 distinct categories exactly min(K, 2) categories
\* are present when the per-category loop is left, and the catch-up pass
\* processes exactly K - min(K, 2) categories
C7_Original ==
    (LoopLeft /\ Distinct(nstate.categories)) =>
        CapAtExit(Len(nstate.categories), Min(Len(nstate.categories), 2))

\* the caller named no current_category, or named the first category
StartsAtFirst ==
    Falsy(n_input.current_category) \/ n_input.current_category = nstate.categories[1]

\* what the loop reaches from the first category: one category of a list of
\* one or two, two categories of a longer list
ReachedFromFirst(K) == IF K <= 2 THEN 1 ELSE 2

\* C7 amended: for K >= 1 distinct categories and a run that starts at the
\* first category, exactly 1 category (K <= 2) or 2 categories (K >= 3) are
\* present when the per-category loop is left, and the catch-up pass processes
\* exactly the others, in declared order
C7_CapFromFirst ==
    (LoopLeft /\ Distinct(nstate.categories) /\ StartsAtFirst) =>
        /\ CapAtExit(Len(nstate.categories), ReachedFromFirst(Len(nstate.categories)))
        /\ PastCatchup => [i \in 1..Len(n_catchup) |-> n_catchup[i].cat] = Remaining

\* three distinct categories: two were present when the loop was left, the
\* catch-up pass processed the third
C7_Witness ==
    /\ n_pc = "generate_newsletter"
    /\ Len(nstate.categories) = 3 /\ Distinct(nstate.categories) /\ StartsAtFirst
    /\ Cardinality(n_exit) = 2
    /\ Len(n_catchup) = 1 /\ n_catchup[1].cat = nstate.categories[3]

\* C8: on a state in which every category is a key of category_summaries (the
\* state the node is invoked on, or the state it has returned),
\* process_remaining_categories, run once or twice in a row, changes nothing
\* and calls no collaborator
C8_CatchupNoOp ==
    (n_pc \in {"process_remaining_categories", "generate_newsletter"} /\ AllPresent(nstate)) =>
        \A o1 \in [1..Len(unprocessed_categories(nstate)) -> CatchupOutcomes(n_tool)] :
            LET once == process_remaining_categories(nstate, o1)
            IN  /\ once = nstate
                /\ process_remaining_calls(nstate, o1) = <<>>
                /\ \A o2 \in [1..Len(unprocessed_categories(once)) -> CatchupOutcomes(n_tool)] :
                      /\ process_remaining_categories(once, o2) = nstate
                      /\ process_remaining_calls(once, o2) = <<>>

\* the catch-up pass has run on a state in which the only category was present
C8_Witness ==
    /\ n_pc = "generate_newsletter"
    /\ Len(nstate.categories) = 1 /\ n_exit = Range(nstate.categories)
    /\ n_catchup = <<>>
    /\ \E c \in n_exit : nstate.category_summaries[c] # <<>>

\* the calls of the catch-up pass, as logged: operation, category, phase
CatchupCalls ==
    LET logged == SelectSeq(n_calls, LAMBDA c : c[3] = "catchup")
    IN  [i \in 1..Len(logged) |-> SubSeq(logged[i], 1, 3)]

\* the calls the catch-up pass owes to the categories it processed: a search
\* for each, and a summarization for each whose search returned
OwedCalls ==
    LET Owed(e) == <<<<"search", e.cat, "catchup">>>>
                   \o (IF e.search = "ok" THEN <<<<"summarize", e.cat, "catchup">>>> ELSE <<>>)
    IN  FlatMap(Owed, n_catchup)

CatchupFailed(e) == e.search # "ok" \/ e.llm # "ok"

\* C9: the catch-up pass returns normally whatever fails in it; it makes a
\* search and summarize attempt for every missing category, those after a
\* failing one included, and a category whose processing failed is mapped to
\* the empty list
C9_CatchupContinues ==
    PastCatchup =>
        /\ [i \in 1..Len(n_catchup) |-> n_catchup[i].cat] = Remaining
        /\ CatchupCalls = OwedCalls
        /\ \A i \in 1..Len(n_catchup) :
              /\ n_catchup[i].cat \in DOMAIN nstate.category_summaries
              /\ (CatchupFailed(n_catchup[i])
                  /\ \A j \in (i + 1)..Len(n_catchup) : n_catchup[j].cat # n_catchup[i].cat)
                 => nstate.category_summaries[n_catchup[i].cat] = <<>>

\* the first missing category's search failed, the second was searched and
\* summarized all the same
C9_Witness ==
    /\ n_pc = "generate_newsletter"
    /\ Len(n_catchup) >= 2
    /\ n_catchup[1].search = "raise"
    /\ n_catchup[2].search = "ok" /\ n_catchup[2].llm = "ok"
    /\ nstate.category_summaries[n_catchup[1].cat] = <<>>
    /\ nstate.category_summaries[n_catchup[2].cat] # <<>>

Malformed == {"nonjson", "nondict", "nokey"}

\* C10: when the text generator's response does not parse as the structured
\* query, generate_query returns with search_query set to the fallback: the
\* research topic (research), "<current_category> latest news <date>" (newsletter)
C10_FallbackOnMalformed ==
    /\ (r_steps = 2 /\ r_last.llm \in Malformed) =>
          /\ r_pc = "search_web"
          /\ rstate.search_query = rstate.research_topic
    /\ (n_pc = "search" /\ n_last.llm \in Malformed) =>
          nstate.search_query = FallbackQuery(nstate.current_category, nstate.date)

\* C11: generate_query returns normally with a search_query set, whatever the
\* text generator's call does (a JSON object, JSON of another shape, text that
\* is no JSON, or the call failing), in both workflows
C11_GenerateQueryReturns ==
    /\ (r_steps = 2 /\ r_last.llm # "-") =>
          /\ r_pc = "search_web"
          /\ r_last.llm # "ok" => rstate.search_query = rstate.research_topic
    /\ (n_calls # <<>> /\ n_calls[Len(n_calls)][1] = "query") =>
          /\ n_pc = "search"
          /\ n_last.llm # "ok" =>
                nstate.search_query = FallbackQuery(nstate.current_category, nstate.date)

\* C12: no node invocation of either workflow, initialize included, makes
\* sources_gathered shorter
C12_SourcesNeverShrink ==
    [][/\ Len(nstate'.sources_gathered) >= Len(nstate.sources_gathered)
       /\ Len(rstate'.sources_gathered) >= Len(rstate.sources_gathered)]_vars

\* C13: in every state of a newsletter run from initialize on, current_category
\* is None or an element of categories
C13_CurrentCategoryIsACategory ==
    n_pc \notin {"off", "initialize"} =>
        \/ nstate.current_category = None
        \/ nstate.current_category \in Range(nstate.categories)

\* C14: a search-provider call that raises is contained by the search node of
\* both workflows: the node returns, control is at the next node, the results
\* are empty and sources_gathered is what it was
C14_SearchFailureContained ==
    [][/\ n_last'.search = "raise" =>
             /\ n_pc' = "summarize"
             /\ nstate'.web_research_results = <<>>
             /\ nstate'.sources_gathered = nstate.sources_gathered
       /\ r_last'.search = "raise" =>
             /\ r_pc' = "update_summary"
             /\ rstate'.sources_gathered = rstate.sources_gathered]_vars

\* C15: a text-generator call that fails inside summarize (newsletter),
\* update_summary or reflect (research) is caught by the node: the node writes
\* its fallback and returns, and the run goes on to the next node
C15_LlmFailureContained ==
    /\ (n_last.llm = "raise" /\ n_pc # "search") =>
          /\ n_pc = "update_category"
          /\ nstate.category_summaries[nstate.current_category] = <<>>
    /\ (r_steps >= 3 /\ r_last.llm = "raise") => r_pc \in {"reflect", "search_web", "update_summary"}

\* the caller named a current_category that is no element of categories
CurrentNotFound ==
    /\ n_pc \notin {"off", "initialize"}
    /\ ~Falsy(n_input.current_category)
    /\ n_input.current_category \notin Range(nstate.categories)

\* C16: when update_category / should_process_next_category have run with a
\* current_category that is not found in categories, the run is stopped there:
\* no further node is invoked
C16_NotFoundIsFatal ==
    (CurrentNotFound /\ n_cycles >= 1) => n_pc = "RAISED"

\* C20: whichever provider the graph is configured with, a search result
\* without a url or without a title is dropped: a search step stores no such
\* result in web_research_results and appends the url of none to
\* sources_gathered
C20_IncompleteResultsDropped ==
    [][n_last'.search # "-" =>
          /\ \A e \in Range(nstate'.web_research_results) : e \notin NoTitle \cup NoUrl
          /\ Len(nstate'.sources_gathered) - Len(nstate.sources_gathered)
                = Len(SelectSeq(nstate'.web_research_results,
                                LAMBDA e : e \notin NoTitle \cup NoUrl))]_vars

\* C17: NewsletterRunner.run returns without raising; the newsletter text of
\* what it returns is the newsletter_summary that generate_newsletter rendered,
\* its per-category results are the final category_summaries and its sources
\* the final sources_gathered
C17_RunnerReturnsTheNewsletter ==
    n_result.caller = "runner" =>
        /\ n_pc # "RAISED"
        /\ n_pc = "END" =>
              /\ n_result.returned
              /\ n_result.value.tldr_summary = nstate.newsletter_summary
              /\ n_result.value.category_summaries = nstate.category_summaries
              /\ n_result.value.sources = nstate.sources_gathered

\* a line that opens a section: the emoji and the category
IsSectionHead(line) == Len(line) = 2 /\ line[2] \notin {"title", "summary"}

\* the positions of the section heads in a text, below its first line
SectionHeads(text) == {k \in 2..Len(text) : IsSectionHead(text[k])}

\* the position of the i-th section head
HeadAt(text, i) ==
    CHOOSE k \in SectionHeads(text) : Cardinality({x \in SectionHeads(text) : x < k}) = i - 1

\* the position after the last line of the i-th section
SectionEnd(text, i) ==
    IF i < Cardinality(SectionHeads(text)) THEN HeadAt(text, i + 1) ELSE Len(text) + 1

\* C18: the rendered newsletter opens with the date line and has one section
\* per entry of categories, in declared order; a section holds the articles of
\* category_summaries for its category and nothing else, three lines each, in
\* the order they are stored
C18_RenderedInDeclaredOrder ==
    n_pc = "END" =>
        LET text == nstate.newsletter_summary
            cats == nstate.categories
        IN  /\ text[1] = <<"Builder's News ", nstate.date>>
            /\ Cardinality(SectionHeads(text)) = Len(cats)
            /\ \A i \in 1..Len(cats) :
                  LET h == HeadAt(text, i)
                      articles == nstate.category_summaries[cats[i]]
                  IN  /\ text[h] = <<Emoji(cats[i]), cats[i]>>
                      /\ SectionEnd(text, i) - h - 1 = 3 * Len(articles)
                      /\ \A j \in 1..Len(articles) :
                            /\ text[h + 3 * (j - 1) + 1] = <<articles[j], "title">>
                            /\ text[h + 3 * (j - 1) + 2] = <<articles[j], "summary">>
                            /\ text[h + 3 * (j - 1) + 3] = <<"Read more: ", articles[j], "url">>

\* a rendered newsletter of several categories, one with two articles, one
\* with none
C18_Witness ==
    /\ n_pc = "END"
    /\ Len(nstate.categories) >= 2
    /\ Len(nstate.newsletter_summary) > 1 + Len(nstate.categories)
    /\ \E c, d \in Range(nstate.categories) :
          /\ Len(nstate.category_summaries[c]) = 2
          /\ nstate.category_summaries[d] = <<>>

\* C19: two runs of one compiled graph, interleaved between their nodes, each
\* own their state: at every point, and so at its end, the state of a run is
\* the state the run has when it runs alone with the same collaborator
\* responses; no step of the other run has changed it
C19_RunsAreIndependent ==
    \A i \in Runs : c_pc[i] # "off" => c_state[i] = c_alone[i]

\* both runs were given the same input object, both are in the middle of the
\* per-category cycle, and they have gathered different sources and summaries
C19_Witness ==
    /\ c_shared
    /\ c_pc[1] = "update_category" /\ c_pc[2] = "summarize"
    /\ c_state[1].sources_gathered # <<>> /\ c_state[2].sources_gathered = <<>>
    /\ DOMAIN c_state[1].category_summaries # {}

\* the newsletter run has been through initialize and through no other node
JustInitialized == n_pc = "generate_query" /\ n_calls = <<>>

\* C21: after the newsletter initialize node current_category is the first
\* element of categories and the processing buffers are empty
\* (category_summaries, newsletter_summary, sources_gathered, search_query,
\* web_research_results), for every state the caller supplies
C21_InitializeStartsAtFirst ==
    JustInitialized =>
        /\ nstate.current_category = nstate.categories[1]
        /\ nstate.category_summaries = EmptyDict
        /\ nstate.newsletter_summary = <<>>
        /\ nstate.sources_gathered = <<>>
        /\ nstate.search_query = <<>>
        /\ nstate.web_research_results = <<>>

\* C22: the newsletter initialize node leaves a non-empty date and a non-empty
\* categories list of the caller as they are, and sets categories to the three
\* default categories, in their order, when the caller gave none
C22_InitializePreservesInput ==
    JustInitialized =>
        /\ ~Falsy(n_input.date) => nstate.date = n_input.date
        /\ n_input.categories # <<>> => nstate.categories = n_input.categories
        /\ n_input.categories = <<>> =>
              nstate.categories =
                  <<"Big Tech & Startups", "Science & Futuristic Technology",
                    "Programming, Design & Data Science">>

\* initialize has run on a state with a date and three categories of the
\* caller's, and has emptied the buffers the caller had filled
C22_Witness ==
    /\ JustInitialized
    /\ n_input.date = "d1" /\ nstate.date = "d1"
    /\ Len(n_input.categories) = 3 /\ nstate.categories = n_input.categories
    /\ n_input.sources_gathered # <<>> /\ nstate.sources_gathered = <<>>

\* C23: after the research initialize node research_loop_count is 0 and
\* web_research_results, sources_gathered and running_summary are empty,
\* whatever the caller supplied for them and with the additive merge of the
\* two list fields; research_topic and max_iterations are what they were
C23_ResearchInitializeResets ==
    (r_pc = "generate_query" /\ r_steps = 1) =>
        /\ rstate.research_loop_count = 0
        /\ rstate.web_research_results = <<>>
        /\ rstate.sources_gathered = <<>>
        /\ rstate.running_summary = <<>>
        /\ rstate.research_topic = r_input.research_topic
        /\ rstate.max_iterations = r_input.max_iterations

\* C24: after every update_summary invocation web_research_results is empty
\* (control is at reflect only when update_summary has returned)
C24_ResultsClearedAfterSummary ==
    r_pc = "reflect" => rstate.web_research_results = <<>>

\* C25: every reflect invocation adds exactly 1 to research_loop_count,
\* whether the text generator's response parses or not, and a response that
\* does not parse sets search_query to "latest developments in <research_topic>"
C25_ReflectIncrementsByOne ==
    [][(r_pc = "reflect" /\ r_steps' = r_steps + 1) =>
          /\ rstate'.research_loop_count = rstate.research_loop_count + 1
          /\ r_last'.llm \in Malformed =>
                rstate'.search_query = <<"latest developments in ">> \o rstate.research_topic]_vars

\* C26: the research search node appends the results the provider returned
\* to web_research_results, as they are and in the provider's order, and the
\* url of each of them to sources_gathered
C26_SearchAppendsResults ==
    [][(r_pc = "search_web" /\ r_pc' = "update_summary") =>
          \E result \in SearchOutcomes(r_tool) :
              /\ result.kind = "ok"
              /\ rstate'.web_research_results = rstate.web_research_results \o result.urls
              /\ rstate'.sources_gathered = rstate.sources_gathered \o Urls(result.urls)]_vars

\* C27: update_category, on a current_category that stands before the last
\* place of categories, sets current_category to the entry that follows it and
\* empties search_query and web_research_results; on a current_category in
\* the last place it changes nothing; category_summaries and sources_gathered
\* are the same after it in both cases (the place of current_category is the
\* place of its first occurrence)
C27_UpdateCategoryAdvances ==
    [][n_pc = "update_category" =>
          LET cats == nstate.categories
              place == index(cats, nstate.current_category)
          IN  /\ (1 <= place /\ place < Len(cats)) =>
                    /\ nstate'.current_category = cats[place + 1]
                    /\ nstate'.search_query = <<>>
                    /\ nstate'.web_research_results = <<>>
              /\ (1 <= place /\ place = Len(cats)) => nstate' = nstate
              /\ nstate'.category_summaries = nstate.category_summaries
              /\ nstate'.sources_gathered = nstate.sources_gathered]_vars

\* update_category has moved the run from the first category to the second,
\* with a summary stored and sources gathered for the first
C27_Witness ==
    /\ n_pc = "generate_query" /\ n_cycles = 1
    /\ Len(nstate.categories) >= 2
    /\ nstate.current_category = nstate.categories[2]
    /\ nstate.current_category # nstate.categories[1]
    /\ nstate.search_query = <<>> /\ nstate.web_research_results = <<>>
    /\ nstate.categories[1] \in DOMAIN nstate.category_summaries
    /\ nstate.sources_gathered # <<>>

\* the search calls of the catch-up pass, as logged
CatchupSearches == SelectSeq(n_calls, LAMBDA c : c[3] = "catchup" /\ c[1] = "search")

\* C28: process_remaining_categories visits the categories that were absent
\* from category_summaries in declared order, makes for each of them one search
\* with the query "<category> latest news <date>", and when it has returned
\* every element of categories is a key of category_summaries, whatever the
\* collaborators did
C28_CatchupVisitsInOrder ==
    PastCatchup =>
        /\ [i \in 1..Len(n_catchup) |-> n_catchup[i].cat] = Remaining
        /\ CatchupSearches =
              [i \in 1..Len(Remaining) |->
                  <<"search", Remaining[i], "catchup",
                    <<Remaining[i], " latest news ", nstate.date>>>>]
        /\ \A c \in Range(nstate.categories) : c \in DOMAIN nstate.category_summaries

\* the catch-up pass has processed two categories after a loop that left a
\* query of its own behind: the summarizer failed for one, the search for the
\* other
C28_Witness ==
    /\ n_pc = "generate_newsletter"
    /\ Len(n_catchup) = 2 /\ n_catchup[1].cat # n_catchup[2].cat
    /\ n_catchup[1].llm = "raise" /\ n_catchup[2].search = "raise"
    /\ Len(CatchupSearches) = 2
    /\ CatchupSearches[2][4] = <<n_catchup[2].cat, " latest news ", Today>>

\* the calls of an operation made for a category, in both phases
Attempts(op, category) ==
    Cardinality({i \in 1..Len(n_calls) : n_calls[i][1] = op /\ n_calls[i][2] = category})

\* C29: over a whole newsletter run the search provider and the summarizer
\* are each invoked at most once for every declared category name, the
\* per-category loop and the catch-up pass counted together
C29_SingleAttemptPerCategory ==
    \A category \in Range(nstate.categories) :
        Attempts("search", category) <= 1 /\ Attempts("summarize", category) <= 1

CyclesBegun == Cardinality({i \in 1..Len(n_calls) : n_calls[i][1] = "query"})

\* C31: for every category list, repeated names included, and every
\* current_category, a newsletter run goes through the generate_query ->
\* search -> summarize -> update_category cycle at most min(len(categories), 2)
\* times, and at least once before it leaves the loop
C31_CyclesBounded ==
    /\ n_cycles <= CyclesBegun
    /\ CyclesBegun <= (IF Len(nstate.categories) < 2 THEN Len(nstate.categories) ELSE 2)
    /\ LoopLeft => n_cycles >= 1

\* the loop was left after two cycles on a list of three entries, two of
\* them the same name
C31_Witness ==
    /\ n_pc = "process_remaining_categories"
    /\ n_cycles = 2 /\ CyclesBegun = 2
    /\ Len(nstate.categories) = 3 /\ ~Distinct(nstate.categories)

\* C32: process_remaining_categories changes no entry that category_summaries
\* held when the node was entered: every key present on entry is present on
\* return, with the same value
C32_CatchupKeepsEntries ==
    [][n_pc = "process_remaining_categories" =>
          \A k \in DOMAIN nstate.category_summaries :
              /\ k \in DOMAIN nstate'.category_summaries
              /\ nstate'.category_summaries[k] = nstate.category_summaries[k]]_vars

\* the catch-up pass has returned: it recorded a failure for one category, and
\* a category the loop had summarized still has its two articles
C32_Witness ==
    /\ n_pc = "generate_newsletter"
    /\ \E i \in 1..Len(n_catchup) :
          /\ CatchupFailed(n_catchup[i])
          /\ n_catchup[i].cat \notin n_exit
    /\ \E k \in n_exit : Len(nstate.category_summaries[k]) = 2

\* C33: in a research run with max_iterations = N >= 1 the search provider is
\* invoked at most N times, and the search node is not entered once
\* research_loop_count has reached max_iterations
C33_SearchesBounded ==
    (r_pc # "off" /\ r_input.max_iterations >= 1) =>
        /\ r_searches <= r_input.max_iterations
        /\ r_pc = "search_web" => rstate.research_loop_count < rstate.max_iterations

\* a run asked for two iterations has made its two searches, the loop
\* predicate has answered False and the run has gone on for more invocations,
\* the count passing two, without another search
C33_Witness ==
    /\ r_input.max_iterations = 2 /\ r_searches = 2
    /\ r_stopped /\ r_after >= 2
    /\ rstate.research_loop_count > rstate.max_iterations

\* the processing of a catch-up category failed in its search or in the
\* summarizer's call: the failure handler recorded the empty list for it
HandlerRan(e) == e.search # "ok" \/ e.llm = "raise"

\* C34: a category whose processing failed in the catch-up pass (search error
\* or summarization call error) contributes no url to sources_gathered: the
\* pass appends the urls of the other categories it processed and no more, a
\* failed category has the empty list, and nothing but category_summaries,
\* current_category, search_query and web_research_results is changed
C34_FailedCatchupAddsNoUrls ==
    [][n_pc = "process_remaining_categories" =>
          /\ nstate'.sources_gathered =
                nstate.sources_gathered
                \o FlatMap(LAMBDA e : IF HandlerRan(e) THEN <<>> ELSE e.urls, n_catchup')
          /\ \A i \in 1..Len(n_catchup') :
                (HandlerRan(n_catchup'[i])
                 /\ \A j \in (i + 1)..Len(n_catchup') : n_catchup'[j].cat # n_catchup'[i].cat)
                => nstate'.category_summaries[n_catchup'[i].cat] = <<>>
          /\ nstate'.date = nstate.date
          /\ nstate'.categories = nstate.categories
          /\ nstate'.newsletter_summary = nstate.newsletter_summary
          /\ nstate'.search_tool_name = nstate.search_tool_name]_vars

====
